---- MODULE Spec2Model ----
(***************************************************************************)
(* Model of scqubits/core/sweeps.py: generator(sweep, func, **kwargs).     *)
(*                                                                         *)
(* A run of generator is a state machine: the grid reduction               *)
(* (create_sliced with remove_fixed=False), then one step per element      *)
(* pulled by list(tqdm(map(func_effective, itertools.product(...)))),      *)
(* then np.asarray and reshape.  The Parameters class (create_sliced,      *)
(* counts, ranges, __getitem__) is not part of sweeps.py; it follows the   *)
(* Grid Reducer contract of the specification.                             *)
(*                                                                         *)
(* Multi-indices are sequences of 0-based integers, one per axis.          *)
(***************************************************************************)
EXTENDS Integers, Sequences, FiniteSets

\* ------------------------------------------------------------- bounds
MaxAxes == 2
MaxCount == 4
MaxElemLen == 2

\* the keyword arguments generator is called with (one opaque value)
KwValues == {0, 1}

\* ------------------------------------------------------------- helpers
RECURSIVE Prod(_)
\* np.prod over a tuple of counts (1 for the empty tuple)
Prod(s) == IF Len(s) = 0 THEN 1 ELSE Head(s) * Prod(Tail(s))

RECURSIVE SumSeq(_)
SumSeq(s) == IF Len(s) = 0 THEN 0 ELSE Head(s) + SumSeq(Tail(s))

MinOf(S) == CHOOSE x \in S : \A y \in S : x <= y
MaxOf(S) == CHOOSE x \in S : \A y \in S : x >= y

\* the suffix s[i+1..Len(s)]
After(s, i) == SubSeq(s, i + 1, Len(s))

\* ------------------------------------------------- Parameters (Grid Reducer)
\* physical value number j (0-based) of axis i: distinct on every axis
AxisVal(i, j) == 10 * i + j

\* a ParameterAxis of c values
Axis(i, c) == [j \in 1..c |-> AxisVal(i, j - 1)]

\* Parameters.counts: the ordered per-axis sizes
counts(params) == [i \in 1..Len(params) |-> Len(params[i])]

\* Parameters.ranges: each axis's index range 0..count-1
ranges(params) == [i \in 1..Len(params) |-> 0..(Len(params[i]) - 1)]

\* Parameters[index_tuple]: the physical values at a multi-index
paramvals_at(params, m) == [i \in 1..Len(params) |-> params[i][m[i] + 1]]

\* an entry of the fixed indices: <<>> sweeps the axis, <<k>> pins it to k
IsFixed(f) == Len(f) = 1

\* every pinned index lies in its axis's range
FixedInRange(params, fixed) ==
    \A i \in 1..Len(params) :
        IsFixed(fixed[i]) => (fixed[i][1] >= 0 /\ fixed[i][1] < Len(params[i]))

RECURSIVE SlicedFrom(_, _, _, _)
\* the axes i..n after slicing
SlicedFrom(params, fixed, remove_fixed, i) ==
    IF i > Len(params) THEN <<>>
    ELSE IF IsFixed(fixed[i])
         THEN (IF remove_fixed THEN <<>> ELSE << <<params[i][fixed[i][1] + 1]>> >>)
                  \o SlicedFrom(params, fixed, remove_fixed, i + 1)
         ELSE <<params[i]>> \o SlicedFrom(params, fixed, remove_fixed, i + 1)

\* Parameters.create_sliced: ok = FALSE stands for the OutOfRangeError
create_sliced(params, fixed, remove_fixed) ==
    IF FixedInRange(params, fixed)
    THEN [ok |-> TRUE, params |-> SlicedFrom(params, fixed, remove_fixed, 1)]
    ELSE [ok |-> FALSE, params |-> <<>>]

\* ------------------------------------------------------------- generator
\* faulty variant: the pinned axes are dropped
reduced_parameters_removed(params, fixed) == create_sliced(params, fixed, TRUE)

\* faulty variant: the pinned indices are validated but not applied
reduced_parameters_unsliced(params, fixed) ==
    [ok |-> create_sliced(params, fixed, FALSE).ok, params |-> params]

\* faulty variant: the pinned indices are ignored
reduced_parameters_unchecked(params, fixed) == [ok |-> TRUE, params |-> params]

\* reduced_parameters = sweep.parameters.create_sliced(..., remove_fixed=False)
reduced_parameters(params, fixed) == create_sliced(params, fixed, FALSE)

\* faulty variant: the sum of the counts
total_count_sum(reduced) == SumSeq(counts(reduced))

\* total_count = np.prod(reduced_parameters.counts)
total_count(reduced) == Prod(counts(reduced))

\* the value a scalar-valued func returns: injective in (paramvals, kw)
RECURSIVE Horner(_, _)
Horner(vals, acc) ==
    IF Len(vals) = 0 THEN acc ELSE Horner(Tail(vals), acc * 100 + Head(vals))

FuncScalar(vals, kw) == Horner(vals, 0) * Cardinality(KwValues) + kw

\* func's return value: a scalar (shape <<>>) or an array of elemLen cells
FuncReturn(len, vals, kw) ==
    IF len = 0
    THEN [shape |-> <<>>, cells |-> <<FuncScalar(vals, kw)>>]
    ELSE [shape |-> <<len>>,
          cells |-> [j \in 1..len |-> FuncScalar(vals, kw) * 10 + j]]

\* faulty variant: the physical values are looked up in the unreduced parameters
func_effective_unreduced(sweep, paramindex_tuple, params, kw) ==
    [ctx |-> sweep,
     paramindex_tuple |-> paramindex_tuple,
     paramvals_tuple |-> paramvals_at(sweep.parameters, paramindex_tuple),
     kw |-> kw]

\* func_effective: the arguments func is invoked with
func_effective(sweep, paramindex_tuple, params, kw) ==
    [ctx |-> sweep,
     paramindex_tuple |-> paramindex_tuple,
     paramvals_tuple |-> paramvals_at(params, paramindex_tuple),
     kw |-> kw]

\* the exhausted iterator
Exhausted == [alive |-> FALSE, cur |-> <<>>]

\* itertools.product(*rs): the first tuple, if every range is non-empty
product_first(rs) ==
    IF \E i \in 1..Len(rs) : rs[i] = {}
    THEN Exhausted
    ELSE [alive |-> TRUE, cur |-> [i \in 1..Len(rs) |-> MinOf(rs[i])]]

\* faulty variant: the first axis varies fastest
product_next_first_fastest(cur, rs) ==
    LET movable == {i \in 1..Len(rs) : cur[i] < MaxOf(rs[i])}
    IN  IF movable = {} THEN Exhausted
        ELSE LET p == MinOf(movable)
             IN  [alive |-> TRUE,
                  cur |-> [i \in 1..Len(rs) |->
                              IF i > p THEN cur[i]
                              ELSE IF i = p THEN cur[i] + 1
                              ELSE MinOf(rs[i])]]

\* itertools.product(*rs): the tuple after cur (the rightmost element advances
\* on every step, like an odometer)
product_next(cur, rs) ==
    LET movable == {i \in 1..Len(rs) : cur[i] < MaxOf(rs[i])}
    IN  IF movable = {} THEN Exhausted
        ELSE LET p == MaxOf(movable)
             IN  [alive |-> TRUE,
                  cur |-> [i \in 1..Len(rs) |->
                              IF i < p THEN cur[i]
                              ELSE IF i = p THEN cur[i] + 1
                              ELSE MinOf(rs[i])]]

\* tqdm's counter after one element went through: unchanged when disabled
tqdm_update(count, disable) == IF disable THEN count ELSE count + 1

\* faulty variant: the exception is swallowed and the iteration goes on
after_raise_swallowed == "sweeping"

\* an exception inside map() is not caught: generator is left
after_raise == "raised"

RECURSIVE Flatten(_)
Flatten(data) ==
    IF Len(data) = 0 THEN <<>> ELSE Head(data).cells \o Flatten(Tail(data))

\* np.asarray of the list of (uniformly shaped) results
asarray(data) ==
    IF Len(data) = 0
    THEN [shape |-> <<0>>, flat |-> <<>>]
    ELSE [shape |-> <<Len(data)>> \o data[1].shape, flat |-> Flatten(data)]

\* the offset of multi-index m in a C-ordered (row-major) array
RowMajorOffset(m, shape) ==
    SumSeq([i \in 1..Len(shape) |-> m[i] * Prod(After(shape, i))])

\* arr[m]
ArrayElement(arr, m) == arr.flat[RowMajorOffset(m, arr.shape) + 1]

\* np.unravel_index(k, shape): the k-th (0-based) row-major multi-index
Unravel(k, shape) ==
    [i \in 1..Len(shape) |-> (k \div Prod(After(shape, i))) % shape[i]]

\* the offset of multi-index m in a Fortran-ordered (column-major) array
ColMajorOffset(m, shape) ==
    SumSeq([i \in 1..Len(shape) |-> m[i] * Prod(SubSeq(shape, 1, i - 1))])

\* faulty variant: reshape(newshape, order="F")
reshape_fortran(arr, newshape) ==
    IF Prod(arr.shape) = Prod(newshape)
    THEN [ok |-> TRUE,
          arr |-> [shape |-> newshape,
                   flat |-> [p \in 1..Len(arr.flat) |->
                       arr.flat[ColMajorOffset(Unravel(p - 1, newshape), newshape) + 1]]]]
    ELSE [ok |-> FALSE, arr |-> [shape |-> <<>>, flat |-> <<>>]]

\* faulty variant: the array is returned as np.asarray left it
reshape_forgotten(arr, newshape) == [ok |-> TRUE, arr |-> arr]

\* ndarray.reshape(newshape): the same buffer under a new shape;
\* ok = FALSE stands for the ValueError of a size mismatch
reshape(arr, newshape) ==
    IF Prod(arr.shape) = Prod(newshape)
    THEN [ok |-> TRUE, arr |-> [shape |-> newshape, flat |-> arr.flat]]
    ELSE [ok |-> FALSE, arr |-> [shape |-> <<>>, flat |-> <<>>]]

\* ------------------------------------------------------------- state
VARIABLES
    parameters,     \* sweep.parameters: one sequence of values per axis
    fixed,          \* sweep._current_param_indices: <<>> or <<k>> per axis
    kwargs,         \* the keyword arguments given to generator
    elemLen,        \* func returns a scalar (0) or an array of elemLen cells
    disabled,       \* settings.PROGRESSBAR_DISABLED
    pc,             \* "start", "sweeping", "in_func", "done", "raised"
    err,            \* the exception generator was left with, or "none"
    reduced,        \* reduced_parameters
    total,          \* the total handed to tqdm
    it,             \* itertools.product: the next tuple, or exhausted
    calls,          \* the invocations of func, in order
    data_array,     \* the results collected by list(...)
    progress,       \* tqdm's counter
    result          \* <<>>, or <<array>> once generator has returned

vars == <<parameters, fixed, kwargs, elemLen, disabled, pc, err, reduced,
          total, it, calls, data_array, progress, result>>

inputs == <<parameters, fixed, kwargs, elemLen, disabled>>

\* the sweep object handed to func as its context
SweepObj == [parameters |-> parameters, current_param_indices |-> fixed]

\* the parameter spaces: 1..MaxAxes axes of 0..MaxCount values each
ParameterSpaces ==
    UNION {{[i \in 1..n |-> Axis(i, c[i])] : c \in [1..n -> 0..MaxCount]}
              : n \in 1..MaxAxes}

\* every axis swept, or pinned to an index of -1..count (the ends are out of range)
FixedIndices(params) ==
    {f \in [1..Len(params) -> {<<>>} \cup {<<k>> : k \in (-1)..MaxCount}] :
        \A i \in 1..Len(params) : IsFixed(f[i]) => f[i][1] <= Len(params[i])}

Init ==
    /\ parameters \in ParameterSpaces
    /\ fixed \in FixedIndices(parameters)
    /\ kwargs \in KwValues
    /\ elemLen \in 0..MaxElemLen
    /\ disabled \in BOOLEAN
    /\ pc = "start"
    /\ err = "none"
    /\ reduced = <<>>
    /\ total = 0
    /\ it = Exhausted
    /\ calls = <<>>
    /\ data_array = <<>>
    /\ progress = 0
    /\ result = <<>>

\* lines 61-64 and the construction of product/map/tqdm
Reduce ==
    /\ pc = "start"
    /\ LET r == reduced_parameters(parameters, fixed)
       IN  IF r.ok
           THEN /\ reduced' = r.params
                /\ total' = total_count(r.params)
                /\ it' = product_first(ranges(r.params))
                /\ pc' = "sweeping"
                /\ err' = err
           ELSE /\ pc' = "raised"
                /\ err' = "OutOfRangeError"
                /\ UNCHANGED <<reduced, total, it>>
    /\ UNCHANGED <<inputs, calls, data_array, progress, result>>

\* map() takes the next tuple from product and calls func_effective with it
CallFunc ==
    /\ pc = "sweeping"
    /\ it.alive
    /\ calls' = Append(calls, func_effective(SweepObj, it.cur, reduced, kwargs))
    /\ it' = product_next(it.cur, ranges(reduced))
    /\ pc' = "in_func"
    /\ UNCHANGED <<inputs, err, reduced, total, data_array, progress, result>>

\* func returns: list() stores the value, tqdm counts it
FuncReturns ==
    /\ pc = "in_func"
    /\ LET c == calls[Len(calls)]
       IN  data_array' =
               Append(data_array, FuncReturn(elemLen, c.paramvals_tuple, c.kw))
    /\ progress' = tqdm_update(progress, disabled)
    /\ pc' = "sweeping"
    /\ UNCHANGED <<inputs, err, reduced, total, it, calls, result>>

\* func raises
FuncRaises ==
    /\ pc = "in_func"
    /\ pc' = after_raise
    /\ err' = "CallbackError"
    /\ UNCHANGED <<inputs, reduced, total, it, calls, data_array, progress, result>>

\* lines 96-97, once product is exhausted
Finish ==
    /\ pc = "sweeping"
    /\ ~it.alive
    /\ LET r == reshape(asarray(data_array), counts(reduced))
       IN  IF r.ok
           THEN /\ result' = <<r.arr>>
                /\ pc' = "done"
                /\ err' = err
           ELSE /\ pc' = "raised"
                /\ err' = "ValueError"
                /\ result' = result
    /\ UNCHANGED <<inputs, reduced, total, it, calls, data_array, progress>>

Next == Reduce \/ CallFunc \/ FuncReturns \/ FuncRaises \/ Finish

Spec == Init /\ [][Next]_vars

\* ------------------------------------------------------------- claims
\* generator got past the grid reduction
Reduced == pc \in {"sweeping", "in_func", "done"} \/ err \in {"CallbackError", "ValueError"}

\* the multi-indices of a grid of the given shape
Grid(shape) ==
    {m \in [1..Len(shape) -> 0..MaxCount] : \A i \in 1..Len(shape) : m[i] < shape[i]}

\* the shape the claims expect: a pinned axis has length 1, a swept axis its count
ExpectedShape ==
    [i \in 1..Len(parameters) |->
        IF IsFixed(fixed[i]) THEN 1 ELSE Len(parameters[i])]

\* some pinned index is outside its axis
SomePinOutOfRange ==
    \E i \in 1..Len(parameters) :
        IsFixed(fixed[i]) /\ (fixed[i][1] < 0 \/ fixed[i][1] >= Len(parameters[i]))

LexLess(a, b) ==
    \E i \in 1..Len(a) : a[i] < b[i] /\ \A j \in 1..(i - 1) : a[j] = b[j]

\* the 3x4 space of the scenarios
Is3x4 == Len(parameters) = 2 /\ Len(parameters[1]) = 3 /\ Len(parameters[2]) = 4

\* C1: a returned array has one dimension per axis of the parameter space, of
\* length 1 where the axis is pinned and of the axis's count where it is swept
C1_Shape ==
    pc = "done" =>
        /\ Len(result) = 1
        /\ Len(result[1].shape) = Len(parameters)
        /\ \A i \in 1..Len(parameters) :
              result[1].shape[i] =
                  IF IsFixed(fixed[i]) THEN 1 ELSE Len(parameters[i])

C1_Witness ==
    /\ pc = "done"
    /\ Len(parameters) = 2
    /\ Len(parameters[1]) = 3
    /\ fixed[1] = <<>>
    /\ fixed[2] = <<1>>
    /\ result[1].shape = <<3, 1>>

\* C2: the element of the returned array at multi-index m is the value func
\* returned when it was called with paramindex_tuple = m, and the k-th collected
\* result sits at the k-th row-major multi-index of reduced.counts
C2_RowMajorCorrespondence ==
    pc = "done" =>
        /\ \A m \in Grid(counts(reduced)) :
              \E k \in 1..Len(calls) :
                  /\ calls[k].paramindex_tuple = m
                  /\ ArrayElement(result[1], m) =
                        FuncReturn(elemLen, calls[k].paramvals_tuple, calls[k].kw).cells[1]
        /\ \A k \in 1..Len(data_array) :
              ArrayElement(result[1], Unravel(k - 1, counts(reduced))) =
                  data_array[k].cells[1]

C2_Witness ==
    /\ pc = "done"
    /\ Is3x4
    /\ fixed = << <<>>, <<>> >>
    /\ ArrayElement(result[1], <<2, 1>>) = FuncScalar(<<AxisVal(1, 2), AxisVal(2, 1)>>, kwargs)

\* C3: func is called one call at a time, in row-major order of the reduced grid
\* (the k-th call has the k-th row-major multi-index, so the calls increase
\* lexicographically), and a completed sweep has called it exactly once for
\* every multi-index of the grid
C3_RowMajorOnce ==
    /\ \A k \in 1..Len(calls) :
          calls[k].paramindex_tuple = Unravel(k - 1, counts(reduced))
    /\ \A k \in 2..Len(calls) :
          LexLess(calls[k - 1].paramindex_tuple, calls[k].paramindex_tuple)
    /\ Len(calls) = Len(data_array) + (IF pc = "in_func" \/ err = "CallbackError" THEN 1 ELSE 0)
    /\ pc = "done" =>
          \A m \in Grid(counts(reduced)) :
              Cardinality({k \in 1..Len(calls) : calls[k].paramindex_tuple = m}) = 1
    /\ pc = "done" => Len(calls) = Cardinality(Grid(counts(reduced)))

C3_Witness ==
    /\ pc = "done"
    /\ Is3x4
    /\ Len(calls) = 12
    /\ calls[5].paramindex_tuple = <<1, 0>>

\* C4 as stated: on a pinned axis every call's paramindex_tuple holds the pinned index
C4_PinnedIndexPassed ==
    \A k \in 1..Len(calls) :
        \A i \in 1..Len(parameters) :
            IsFixed(fixed[i]) => calls[k].paramindex_tuple[i] = fixed[i][1]

\* C4 (amended): on an axis pinned to k every call's paramindex_tuple holds 0, the
\* only index of the collapsed axis, and its paramvals_tuple holds the axis's
\* value at k; a 3x4 space with axis 0 pinned to 1 gives exactly 4 calls and a
\* 1x4 array
C4_PinnedAxisCollapsed ==
    /\ \A k \in 1..Len(calls) :
          \A i \in 1..Len(parameters) :
              IsFixed(fixed[i]) =>
                  /\ calls[k].paramindex_tuple[i] = 0
                  /\ calls[k].paramvals_tuple[i] = parameters[i][fixed[i][1] + 1]
    /\ (pc = "done" /\ Is3x4 /\ fixed = << <<1>>, <<>> >>) =>
          /\ Len(calls) = 4
          /\ result[1].shape = <<1, 4>>
          /\ \A k \in 1..4 : calls[k].paramvals_tuple[1] = AxisVal(1, 1)

C4_Witness ==
    /\ pc = "done"
    /\ Is3x4
    /\ fixed = << <<1>>, <<>> >>
    /\ Len(calls) = 4

\* C5: once func has raised, generator is left with that exception: nothing
\* more happens (no further call, no retry of the failing point) and no array
\* is returned
C5_AllOrNothing ==
    err = "CallbackError" =>
        /\ pc = "raised"
        /\ ~ENABLED Next
        /\ result = <<>>
        /\ Len(calls) = Len(data_array) + 1
        /\ \A k \in 1..(Len(calls) - 1) :
              calls[k].paramindex_tuple # calls[Len(calls)].paramindex_tuple

C5_Witness ==
    /\ err = "CallbackError"
    /\ pc = "raised"
    /\ Len(calls) = 3
    /\ it.alive

\* C6: when an axis of the reduced space has count 0, total_count is 0, func is
\* never called, generator does not raise, and the array it returns has the
\* shape reduced.counts and no elements
C6_ZeroSize ==
    (Reduced /\ \E i \in 1..Len(reduced) : Len(reduced[i]) = 0) =>
        /\ total = 0
        /\ calls = <<>>
        /\ pc \in {"sweeping", "done"}
        /\ pc = "sweeping" => ENABLED Finish
        /\ pc = "done" =>
              /\ result[1].shape = counts(reduced)
              /\ result[1].flat = <<>>

C6_Witness ==
    /\ pc = "done"
    /\ calls = <<>>
    /\ result[1].shape = <<0, 4>>

\* C7: a pinned index below 0 or not below its axis's count makes the grid
\* reduction fail with OutOfRangeError: func is never called, nothing is returned
C7_FixedIndexRejected ==
    (SomePinOutOfRange /\ pc # "start") =>
        /\ pc = "raised"
        /\ err = "OutOfRangeError"
        /\ calls = <<>>
        /\ result = <<>>
        /\ ~ENABLED Next

C7_Witness ==
    /\ pc = "raised"
    /\ err = "OutOfRangeError"
    /\ Is3x4
    /\ fixed = << <<3>>, <<-1>> >>

\* C8: every call gets the sweep object as context, the keyword arguments given
\* to generator, and as paramvals_tuple one physical value per axis, in axis
\* order: the value at the call's index on a swept axis, the pinned value on a
\* pinned axis
C8_CallArguments ==
    \A k \in 1..Len(calls) :
        /\ calls[k].ctx = SweepObj
        /\ calls[k].kw = kwargs
        /\ Len(calls[k].paramindex_tuple) = Len(parameters)
        /\ Len(calls[k].paramvals_tuple) = Len(parameters)
        /\ \A i \in 1..Len(parameters) :
              calls[k].paramvals_tuple[i] =
                  IF IsFixed(fixed[i])
                  THEN parameters[i][fixed[i][1] + 1]
                  ELSE parameters[i][calls[k].paramindex_tuple[i] + 1]

C8_Witness ==
    /\ Len(calls) = 2
    /\ Len(parameters) = 2
    /\ fixed = << <<2>>, <<>> >>
    /\ kwargs = 1
    /\ calls[2].paramvals_tuple = <<AxisVal(1, 2), AxisVal(2, 1)>>

\* what a completed sweep has called and returned, from its inputs other than
\* the progress switch
ExpectedFlat ==
    [k \in 1..Prod(ExpectedShape) |->
        LET m == Unravel(k - 1, ExpectedShape)
        IN  FuncReturn(elemLen,
                       [i \in 1..Len(parameters) |->
                           IF IsFixed(fixed[i])
                           THEN parameters[i][fixed[i][1] + 1]
                           ELSE parameters[i][m[i] + 1]],
                       kwargs).cells[1]]

\* C9: the total reported is the product of reduced.counts; the counter starts at
\* 0, counts the completed calls of func (one step up per call that returned,
\* never down) and has reached the total when the sweep is complete, 12 for the
\* 3x4 space; the calls made and the array returned do not depend on whether
\* reporting is disabled
C9_Progress ==
    /\ [](pc = "start" => progress = 0)
    /\ [](Reduced => total = Prod(counts(reduced)))
    /\ [](progress = IF disabled THEN 0 ELSE Len(data_array))
    /\ []((pc = "done" /\ ~disabled) => progress = total)
    /\ []((pc = "done" /\ ~disabled /\ Is3x4 /\ fixed = << <<>>, <<>> >>) => progress = 12)
    /\ [](pc = "done" =>
            /\ Len(calls) = Prod(ExpectedShape)
            /\ \A k \in 1..Len(calls) :
                  calls[k].paramindex_tuple = Unravel(k - 1, ExpectedShape)
            /\ result[1].flat = ExpectedFlat)
    /\ [][\/ progress' = progress
          \/ /\ progress' = progress + 1
             /\ pc = "in_func"
             /\ Len(data_array') = Len(data_array) + 1]_vars

C9_Witness ==
    /\ pc = "done"
    /\ ~disabled
    /\ Is3x4
    /\ progress = 12
    /\ total = 12

\* C10: when func returns arrays of more than one element, the collection and
\* reshape step never fails
C10_ArrayReturnsAccepted ==
    elemLen > 1 => err # "ValueError"
====
